---- MODULE Spec2Model ----
(***************************************************************************)
(* SoundGuard AI: the processing orchestration layer of the server.        *)
(*                                                                         *)
(* The model covers the Audio document (server/models/Audio.js), the       *)
(* controllers of server/controllers/audioController.js and the calls to   *)
(* the Python analysis service (server/services/pythonService.js).         *)
(*                                                                         *)
(* Every request handler is an async function: it runs atomically between *)
(* two awaits (Node runs one continuation at a time), and the database     *)
(* operation or the Gateway call it awaits happens in between, interleaved *)
(* with the steps of the other requests.  Each action below is one such    *)
(* step.                                                                   *)
(*                                                                         *)
(* Optional values (JavaScript null / undefined / a missing key) are sets  *)
(* of at most one element: {} is null, {v} is the value v.                 *)
(*                                                                         *)
(* Five specifications share the actions.  Spec is the service with all    *)
(* four modules and every answer of the Gateway, in an environment that    *)
(* does not fail.  SpecEnv is the service in a failing environment: ids    *)
(* missing or malformed, files that cannot be removed, a database that     *)
(* rejects, a Gateway that fails in every way axios reports.  SpecObs is   *)
(* the service with connections to its WebSocket server.  SpecBand and     *)
(* SpecUi add the browser (client/src/context/AudioContext.jsx and the     *)
(* module dialogs): SpecBand is a quality run for every score, SpecUi is   *)
(* the upload dialog and the enhancement, AQI and forensics dialogs with   *)
(* the requests they make.                                                 *)
(***************************************************************************)
EXTENDS Integers, Sequences, FiniteSets, TLC

\* ------------------------------------------------------------------ bounds

\* Number of uploads (asset ids 1..MaxAssets; an ObjectId is never reused).
MaxAssets == 2

\* Number of requests (module runs and deletes) served in a behaviour.
MaxReqs == 2

\* Number of WebSocket connections made to the server in a behaviour.
MaxClients == 2

AssetIds == 1..MaxAssets
Reqs     == 1..MaxReqs
Clients  == 1..MaxClients

\* ------------------------------------------------------------- the schema

\* processingSchema: aqiScore and authenticityScore have min 0, max 100.
ScoreMin == 0
ScoreMax == 100

\* processingSchema.enhancementModel: enum ['DEMUCS','CleanUNet','FullSubNet+', null]
EnhancementModels == {"DEMUCS", "CleanUNet", "FullSubNet+"}

\* audioSchema.format: enum
Formats == {"mp3", "wav", "flac", "ogg", "m4a", "aac"}

\* The defaults of processingSchema.
processingDefaults ==
  [ enhanced          |-> FALSE,
    enhancementModel  |-> {},
    aqiScore          |-> {},
    authenticityScore |-> {},
    tamperingDetected |-> {} ]

\* The defaults of resultsSchema.
resultsDefaults ==
  [ enhancement |-> {}, explainability |-> {}, aqi |-> {}, forensics |-> {} ]

\* The file multer wrote for upload a, and the file the Python service wrote
\* for the enhancement run of request r.
OrigFile(a) == <<"orig", a>>
EnhFile(r)  == <<"enh", r>>

\* What toLowerCase does on the extensions the model uploads.
toLowerCase(s) ==
  CASE s = "WAV"  -> "wav"
    [] s = "MP3"  -> "mp3"
    [] s = "WEBM" -> "webm"
    [] OTHER      -> s

\* ----------------------------------------------------- the Gateway's answers

\* callEnhance's response.data for the run of request r: the path of the file
\* the service wrote under either of its two keys, or under none, and the
\* metrics present or not.
EnhancePayloads(r) ==
  { [enhancedFilePath |-> {EnhFile(r)}, enhanced_file_path |-> {}, metrics |-> {"metrics"}],
    [enhancedFilePath |-> {}, enhanced_file_path |-> {EnhFile(r)}, metrics |-> {"metrics"}],
    [enhancedFilePath |-> {EnhFile(r)}, enhanced_file_path |-> {}, metrics |-> {}],
    [enhancedFilePath |-> {}, enhanced_file_path |-> {}, metrics |-> {"metrics"}] }

\* callAQI's response.data.
AQIPayloads == { [aqiScore |-> s] : s \in {{}, {-3}, {50}, {87}, {105}} }

\* callForensics's response.data.
ForensicsPayloads ==
  { [authenticityScore |-> {56},  tamperingDetected |-> {TRUE}],
    [authenticityScore |-> {105}, tamperingDetected |-> {FALSE}],
    [authenticityScore |-> {-3},  tamperingDetected |-> {TRUE}],
    [authenticityScore |-> {},    tamperingDetected |-> {}] }

\* callExplain's response.data.
ExplainPayloads == { [report |-> "r1"], [report |-> "r2"] }

\* -------------------------------------------------------------------- state

VARIABLES
  db,      \* the audios collection: asset id -> {} (no document) or {document}
  disk,    \* the files in the uploads directory
  nextId,  \* the next ObjectId `new Audio` hands out
  req,     \* the requests: request -> its handler's position and locals
  clients, \* wss.clients: connection -> its readyState and what was sent to it
  uploadRes, \* the responses to the uploads: asset id -> {} (none yet) or {status}
  ui       \* the browser: the state of AudioContext and of the module dialogs

vars == <<db, disk, nextId, req, clients, uploadRes, ui>>

Modules == {"enhance", "explainability", "aqi", "forensics"}

\* A request slot not yet used.
idleReq ==
  [ kind  |-> "none",  \* a module, or "delete"
    id    |-> 0,        \* req.body.audioId / req.params.id
    model |-> "",       \* req.body.model (enhance)
    pc    |-> "idle",
    prior |-> {},       \* the requests already answered when this one arrived
    audio |-> {},       \* the document findById returned
    arg   |-> {},       \* what the handler hands to the document's method
    cause |-> {},       \* the error axios rejected the Gateway call with
    err   |-> {},       \* the error the handler's catch caught
    trace |-> <<>>,     \* in order: the progress events broadcast, and the
                        \* Gateway call's start ("call") and end
    res   |-> <<>> ]    \* the responses sent

\* A connection not yet made: nothing was sent to it.
newClient == [readyState |-> "none", inbox |-> <<>>]

\* AQIModule.jsx: the score the dialog shows before any run.
DEMO_AQI_SCORE == 87

\* getScoreColor(score) of AQIModule.jsx: the band of a score (of its four
\* attributes the label).
getScoreColorFairFrom40(score) ==
  IF score >= 71 THEN [label |-> "Good"]
  ELSE IF score >= 40 THEN [label |-> "Fair"]
  ELSE [label |-> "Poor"]

getScoreColor(score) ==
  IF score >= 71 THEN [label |-> "Good"]
  ELSE IF score >= 41 THEN [label |-> "Fair"]
  ELSE [label |-> "Poor"]

\* What AQIModule renders from its state: bandLabel is computed from score
\* on every render.
AQIModule(status, score, isDemo) ==
  [ status    |-> status,
    score     |-> score,
    isDemo    |-> isDemo,
    bandLabel |-> getScoreColor(score).label ]

\* ForensicsModule.jsx: what the dialog shows before any run.
DEMO_SCORE      == 56
DEMO_DETECTIONS == <<"splice-1", "edit-1">>
DEMO_SUMMARY    == "demo summary"

\* The state of ForensicsModule.
ForensicsModule(status, score, detections, summary, isDemo) ==
  [ status     |-> status,
    score      |-> score,
    detections |-> detections,
    summary    |-> summary,
    isDemo     |-> isDemo ]

\* Number of entries of PROCESSING_STEPS in the enhancement dialog.
StepCount == 6

\* The state of EnhancementModule: status, progress and results, and of its
\* timers: the interval of the progress simulation (running or not, and its
\* step), and the timeout that sets status to success.
EnhancementModule(status, progress, results, timer, step, timeout) ==
  [ status   |-> status,
    progress |-> progress,
    results  |-> results,
    timer    |-> timer,
    step     |-> step,
    timeout  |-> timeout ]

\* The browser after the page has loaded: AudioProvider's initial state, the
\* initial state of the module dialogs, and no request under way (upload: the
\* id the upload under way will get; calls: per request slot, the module
\* call the browser made).
newUi ==
  [ audioId       |-> {},
    moduleResults |-> [enhancement |-> {}, explainability |-> {},
                       aqi |-> {}, forensics |-> {}],
    upload        |-> {},
    calls         |-> [r \in Reqs |-> {}],
    aqi           |-> AQIModule("idle", DEMO_AQI_SCORE, TRUE),
    forensics     |-> ForensicsModule("idle", DEMO_SCORE, DEMO_DETECTIONS,
                                      DEMO_SUMMARY, TRUE),
    enhancement   |-> EnhancementModule("idle", 0, {}, FALSE, 0, FALSE) ]

Init ==
  /\ db = [a \in AssetIds |-> {}]
  /\ disk = {}
  /\ nextId = 1
  /\ req = [r \in Reqs |-> idleReq]
  /\ clients = [c \in Clients |-> newClient]
  /\ uploadRes = [a \in AssetIds |-> {}]
  /\ ui = newUi

\* ------------------------------------------------------- the Audio document

\* The value of an optional that is not null.
the(o) == CHOOSE x \in o : TRUE

\* JavaScript's `x || null` on an optional object: a missing value is null.
OrNull(x) == x

\* new Audio as it would be if processingSchema.aqiScore defaulted to 0
\* instead of null.
newAudioScoreZero(a, ext, probed) ==
  [ filename     |-> <<"name", ext>>,
    originalPath |-> {OrigFile(a)},
    enhancedPath |-> {},
    format       |-> {toLowerCase(ext)},
    duration     |-> IF probed THEN {183} ELSE {},
    sampleRate   |-> IF probed THEN {44100} ELSE {},
    channels     |-> IF probed THEN {2} ELSE {},
    fileSize     |-> {120000},
    bitrate      |-> IF probed THEN {320} ELSE {},
    uploadDate   |-> a,
    processing   |-> [processingDefaults EXCEPT !.aqiScore = {0}],
    results      |-> resultsDefaults ]

\* new Audio({...}) in uploadAudio: the static attributes, and the schema's
\* defaults for everything else.
newAudio(a, ext, probed) ==
  [ filename     |-> <<"name", ext>>,
    originalPath |-> {OrigFile(a)},
    enhancedPath |-> {},
    format       |-> {toLowerCase(ext)},
    duration     |-> IF probed THEN {183} ELSE {},
    sampleRate   |-> IF probed THEN {44100} ELSE {},
    channels     |-> IF probed THEN {2} ELSE {},
    fileSize     |-> {120000},
    bitrate      |-> IF probed THEN {320} ELSE {},
    uploadDate   |-> a,
    processing   |-> processingDefaults,
    results      |-> resultsDefaults ]

\* markEnhanced as it would be if it replaced the processing sub-document
\* instead of setting its own two paths.
markEnhancedReplacesProcessing(doc, enhancedPath, modelName, metrics) ==
  [doc EXCEPT !.enhancedPath        = enhancedPath,
              !.processing          = [processingDefaults EXCEPT
                                         !.enhanced = TRUE,
                                         !.enhancementModel = {modelName}],
              !.results.enhancement = OrNull(metrics)]

\* audioSchema.methods.markEnhanced, up to its save().
markEnhanced(doc, enhancedPath, modelName, metrics) ==
  [doc EXCEPT !.enhancedPath                = enhancedPath,
              !.processing.enhanced         = TRUE,
              !.processing.enhancementModel = {modelName},
              !.results.enhancement         = OrNull(metrics)]

\* saveAQI as it would be if it kept a result already stored.
saveAQIKeepsFirst(doc, score, detailedMetrics) ==
  IF doc.results.aqi # {} THEN doc
  ELSE [doc EXCEPT !.processing.aqiScore = score,
                   !.results.aqi         = OrNull(detailedMetrics)]

\* audioSchema.methods.saveAQI, up to its save().
saveAQI(doc, score, detailedMetrics) ==
  [doc EXCEPT !.processing.aqiScore = score,
              !.results.aqi         = OrNull(detailedMetrics)]

\* audioSchema.methods.saveForensics, up to its save().
saveForensics(doc, authenticityScore, tampered, details) ==
  [doc EXCEPT !.processing.authenticityScore = authenticityScore,
              !.processing.tamperingDetected = tampered,
              !.results.forensics            = OrNull(details)]

\* audioSchema.methods.saveExplainability, up to its save().
saveExplainability(doc, data) ==
  [doc EXCEPT !.results.explainability = OrNull(data)]

\* The pre('save') hook: keep format lowercase.
preSave(doc) ==
  [doc EXCEPT !.format = {toLowerCase(f) : f \in doc.format}]

\* The validator as it would be without the schema's max.
scoreValidMinOnly(s) == \A v \in s : v >= ScoreMin

\* A Number path with min and max validators accepts null and the range.
scoreValid(s) == \A v \in s : v >= ScoreMin /\ v <= ScoreMax

\* The validation save() runs before it writes: the schema's enum and
\* min/max validators.
validates(doc) ==
  /\ doc.format \subseteq Formats
  /\ doc.processing.enhancementModel \subseteq EnhancementModels
  /\ scoreValid(doc.processing.aqiScore)
  /\ scoreValid(doc.processing.authenticityScore)

\* The enhanced path enhanceAudio reads from the Gateway's result:
\* result.enhancedFilePath || result.enhanced_file_path || null
enhancedPathOf(result) ==
  IF result.enhancedFilePath # {} THEN result.enhancedFilePath
  ELSE result.enhanced_file_path

\* The document method a module's handler calls with the Gateway's result,
\* applied to doc: what the handler assigns before save().
assign(q, doc) ==
  LET result == the(q.arg) IN
  CASE q.kind = "enhance" ->
         markEnhanced(doc, enhancedPathOf(result), q.model, result.metrics)
    [] q.kind = "explainability" ->
         saveExplainability(doc, {result})
    [] q.kind = "aqi" ->
         saveAQI(doc, result.aqiScore, {result})
    [] q.kind = "forensics" ->
         saveForensics(doc, result.authenticityScore, result.tamperingDetected, {result})

\* save() as it would be if it wrote the whole loaded document back.
savedWholeDocument(q, stored) == preSave(assign(q, the(q.audio)))

\* save() of a loaded document writes the paths the method assigned, and only
\* those (Mongoose sends a $set of the modified paths), to the stored
\* document: the stored document with the same assignments made.
saved(q, stored) == preSave(assign(q, stored))

\* ------------------------------------------------------------------ inputs

\* An upload: the extension of the file's original name, and whether ffprobe
\* could read the file.
UploadInputs ==
  { [ext |-> "wav", probed |-> TRUE],
    [ext |-> "MP3", probed |-> FALSE],
    [ext |-> "WEBM", probed |-> TRUE] }

\* req.body.model of an enhance request.
ModelInputs == {"CleanUNet", "WaveNet"}

\* What the Gateway can answer to the call of request q.
Payloads(r, kind) ==
  CASE kind = "enhance"        -> EnhancePayloads(r)
    [] kind = "explainability" -> ExplainPayloads
    [] kind = "aqi"            -> AQIPayloads
    [] kind = "forensics"      -> ForensicsPayloads

\* callAQI's response.data with every score of the schema's range, and with
\* no score.
BandPayloads ==
  {[aqiScore |-> {s}] : s \in ScoreMin..ScoreMax} \cup {[aqiScore |-> {}]}

\* callForensics's response.data as the forensics dialog sees it: with a
\* score or none, and with detections (none, or one) and a summary, or
\* without these keys.
UiForensicsPayloads ==
  { [authenticityScore |-> {91}, tamperingDetected |-> {FALSE},
     detections |-> {<<>>}, summary |-> {"clean"}],
    [authenticityScore |-> {56}, tamperingDetected |-> {TRUE},
     detections |-> {<<"splice-9">>}, summary |-> {"edited"}],
    [authenticityScore |-> {}, tamperingDetected |-> {TRUE},
     detections |-> {<<"splice-9">>}, summary |-> {"edited"}],
    [authenticityScore |-> {91}, tamperingDetected |-> {FALSE},
     detections |-> {}, summary |-> {}] }

\* Every answer of the Gateway to a call of the module kind: the answers
\* above, for a quality run every score, and for a forensics run the answers
\* with detections and a summary.
Answers(r, kind) ==
  Payloads(r, kind)
    \cup (IF kind = "aqi" THEN BandPayloads ELSE {})
    \cup (IF kind = "forensics" THEN UiForensicsPayloads ELSE {})

\* ----------------------------------------------------------------- helpers

\* return res.status(code).json(...): one more response on the request, and
\* the handler is over (its document is no longer referenced).  A success
\* carries the asset's id in its data, an error carries no data.
respond(q, status) ==
  [q EXCEPT !.res   = Append(@, [status |-> status,
                                 id     |-> IF status = "200" THEN {q.id} ELSE {}]),
            !.pc    = "done",
            !.audio = {}]

\* broadcast(req, payload): one more progress event of the request's module.
broadcast(q, status) == [q EXCEPT !.trace = Append(@, status)]

\* The payload of the progress event request r broadcasts (run tells the
\* events of two runs apart), and the welcome message of a new connection.
event(r, status) ==
  [ type |-> "progress", module |-> req[r].kind, status |-> status,
    audioId |-> req[r].id, run |-> r ]

welcome ==
  [ type |-> "connected", module |-> "", status |-> "", audioId |-> 0, run |-> 0 ]

\* The forEach as it would be if send threw on a connection that is closing:
\* the connections after it are not reached.
forEachSendStopsAtClosing(cl, msg) ==
  [c \in Clients |->
     IF cl[c].readyState = "OPEN"
        /\ \A c2 \in Clients : c2 < c => cl[c2].readyState # "CLOSING"
     THEN [cl[c] EXCEPT !.inbox = Append(@, msg)]
     ELSE cl[c]]

\* wss.clients.forEach(client => { if (client.readyState === 1) client.send(msg) }):
\* send queues the message on the socket of every connection that is OPEN.
forEachSend(cl, msg) ==
  [c \in Clients |->
     IF cl[c].readyState = "OPEN"
     THEN [cl[c] EXCEPT !.inbox = Append(@, msg)]
     ELSE cl[c]]

\* The Gateway call of the request starts ("call"), returns or throws.
gateway(q, mark) == [q EXCEPT !.trace = Append(@, mark)]

\* The endpoint of the Python service each module's call posts to.
endpoint(kind) ==
  CASE kind = "enhance"        -> "/enhance"
    [] kind = "explainability" -> "/explain"
    [] kind = "aqi"            -> "/aqi"
    [] kind = "forensics"      -> "/forensics"

\* The errors axios rejects a call with: a code, the response if one arrived
\* (its status, and data.message and data.error if present), a message.
axiosError(code, response) ==
  [ message |-> <<"axios", code>>, code |-> {code}, response |-> response ]

TransportErrors ==
  { axiosError("ECONNREFUSED", {}),
    axiosError("ECONNABORTED", {}),
    axiosError("ECONNRESET", {}),
    axiosError("ENOTFOUND", {}),
    axiosError("ERR_BAD_RESPONSE",
               {[status |-> "500", message |-> {"model crashed"}, error |-> {}]}),
    axiosError("ERR_BAD_REQUEST",
               {[status |-> "422", message |-> {}, error |-> {"bad audio"}]}),
    axiosError("ERR_BAD_RESPONSE",
               {[status |-> "503", message |-> {}, error |-> {}]}) }

\* new Error(msg): an error with a message and nothing of the transport's.
Error(msg) == [ message |-> msg, code |-> {}, response |-> {} ]

\* handlePythonError(err, endpoint): what it throws.
handlePythonError(err, ep) ==
  IF err.code = {"ECONNREFUSED"}
  THEN Error(<<"Python service is not reachable at", ep>>)
  ELSE IF err.response # {}
  THEN LET data == the(err.response) IN
       Error(IF data.message # {} THEN <<the(data.message)>>
             ELSE IF data.error # {} THEN <<the(data.error)>>
             ELSE <<"Python service error", data.status, "on", ep>>)
  ELSE IF err.code = {"ECONNABORTED"}
  THEN Error(<<"Python service timed out on", ep>>)
  ELSE err

\* safeUnlink(filePath): the file is gone if there was a path and a file,
\* unless unlinkSync throws (the files in stuck), which is caught and logged.
safeUnlink(files, filePath, stuck) ==
  IF filePath \subseteq stuck THEN files ELSE files \ filePath

\* ----------------------------------------------------------------- actions

\* POST /api/upload: multer has written the file; the handler probes it,
\* builds the document and saves it (201), and removes the file and answers
\* 500 if the save fails: the document does not validate, or the database
\* rejects the write (rejects).  unlinkSync throws on the files in stuck.
uploadAudio(ext, probed, rejects, stuck) ==
  /\ nextId <= MaxAssets
  /\ LET a      == nextId
         audio  == newAudio(a, ext, probed)
         onDisk == disk \cup {OrigFile(a)}
     IN  IF validates(audio) /\ ~rejects
         THEN /\ db' = [db EXCEPT ![a] = {preSave(audio)}]
              /\ disk' = onDisk
              /\ uploadRes' = [uploadRes EXCEPT ![a] = {"201"}]
         ELSE /\ db' = db
              /\ disk' = safeUnlink(onDisk, {OrigFile(a)}, stuck)
              /\ uploadRes' = [uploadRes EXCEPT ![a] = {"500"}]
  /\ nextId' = nextId + 1
  /\ UNCHANGED <<req, clients, ui>>

\* A request arrives with an id that is missing (a module's body without
\* audioId) or is no ObjectId: the handler returns before it reads anything,
\* after validateId's 400 if there was an id to validate.
validateId(r, kind, present) ==
  /\ req[r].pc = "idle"
  /\ \A r2 \in Reqs : r2 < r => req[r2].pc # "idle"
  /\ present \/ kind \in Modules
  /\ LET q == [req[r] EXCEPT !.kind  = kind,
                             !.id    = IF present THEN -1 ELSE 0,
                             !.prior = {r2 \in Reqs : req[r2].pc = "done"}]
     IN  req' = [req EXCEPT ![r] =
                   IF present THEN respond(q, "400")
                   ELSE [q EXCEPT !.pc = "returned"]]
  /\ UNCHANGED <<db, disk, nextId, clients, uploadRes, ui>>

\* A request arrives, its id is valid, and Audio.findById(id) reads the
\* collection.
findById(r, kind, id, model) ==
  /\ req[r].pc = "idle"
  /\ \A r2 \in Reqs : r2 < r => req[r2].pc # "idle"
  /\ req' = [req EXCEPT ![r] = [@ EXCEPT !.kind  = kind,
                                         !.id    = id,
                                         !.model = model,
                                         !.prior = {r2 \in Reqs : req[r2].pc = "done"},
                                         !.audio = db[id],
                                         !.pc    = "found"]]
  /\ UNCHANGED <<db, disk, nextId, clients, uploadRes, ui>>

\* The handlers as they would be if they broadcast `processing` before they
\* looked for the source file.
beginModuleBroadcastsFirst(r) ==
  LET q == req[r] IN
  /\ q.pc = "found"
  /\ q.kind \in Modules
  /\ req' = [req EXCEPT ![r] =
       IF q.audio = {} THEN respond(q, "404 record")
       ELSE IF the(q.audio).originalPath = {}
               \/ ~(the(q.audio).originalPath \subseteq disk)
         THEN respond(broadcast(q, "processing"), "404 file")
       ELSE [gateway(broadcast(q, "processing"), "call") EXCEPT !.pc = "gateway"]]
  /\ clients' = IF q.audio # {}
                THEN forEachSend(clients, event(r, "processing"))
                ELSE clients
  /\ UNCHANGED <<db, disk, nextId, uploadRes, ui>>

\* enhanceAudio / explainDenoising / calculateAQI / detectTampering, from the
\* document findById returned to the Gateway call.
beginModule(r) ==
  LET q == req[r] IN
  /\ q.pc = "found"
  /\ q.kind \in Modules
  /\ req' = [req EXCEPT ![r] =
       IF q.audio = {} THEN respond(q, "404 record")
       ELSE IF the(q.audio).originalPath = {}
               \/ ~(the(q.audio).originalPath \subseteq disk)
         THEN respond(q, "404 file")
       ELSE [gateway(broadcast(q, "processing"), "call") EXCEPT !.pc = "gateway"]]
  /\ clients' = IF q.audio # {} /\ the(q.audio).originalPath # {}
                   /\ the(q.audio).originalPath \subseteq disk
                THEN forEachSend(clients, event(r, "processing"))
                ELSE clients
  /\ UNCHANGED <<db, disk, nextId, uploadRes, ui>>

\* The Gateway call as it would be if it were cancelled once no connection is
\* open: its result is dropped and the handler's catch runs.
gatewayReturnUnlessAbandoned(r, result, written) ==
  LET q  == [gateway(req[r], "return") EXCEPT !.arg = {result}]
      ok == /\ validates(preSave(assign(q, the(q.audio))))
            /\ \E c \in Clients : clients[c].readyState = "OPEN"
  IN
  /\ req[r].pc = "gateway"
  /\ result \in Answers(r, req[r].kind)
  /\ disk' = IF req[r].kind = "enhance" /\ written
             THEN disk \cup enhancedPathOf(result) ELSE disk
  /\ req' = [req EXCEPT ![r] =
       IF ok THEN [q EXCEPT !.pc = "save"]
       ELSE respond(broadcast(q, "error"), "502")]
  /\ clients' = IF ok THEN clients ELSE forEachSend(clients, event(r, "error"))
  /\ UNCHANGED <<db, nextId, uploadRes, ui>>

\* The Gateway call returns result, and the file the result names is in the
\* uploads directory (written) or not: the handler hands the result to the
\* document's method, whose save() validates the document first.
gatewayReturn(r, result, written) ==
  LET q  == [gateway(req[r], "return") EXCEPT !.arg = {result}] IN
  /\ req[r].pc = "gateway"
  /\ result \in Answers(r, req[r].kind)
  /\ disk' = IF req[r].kind = "enhance" /\ written
             THEN disk \cup enhancedPathOf(result) ELSE disk
  /\ req' = [req EXCEPT ![r] =
       IF validates(preSave(assign(q, the(q.audio))))
       THEN [q EXCEPT !.pc = "save"]
       ELSE respond(broadcast(q, "error"), "502")]
  /\ clients' = IF validates(preSave(assign(q, the(q.audio))))
                THEN clients
                ELSE forEachSend(clients, event(r, "error"))
  /\ UNCHANGED <<db, nextId, uploadRes, ui>>

\* The catch as it would be if it cleared the module's stored result.
gatewayThrowClearsResult(r, err) ==
  /\ req[r].pc = "gateway"
  /\ req' = [req EXCEPT ![r] =
       respond(broadcast(gateway(req[r], "throw"), "error"), "502")]
  /\ db' = [db EXCEPT ![req[r].id] =
              {[d EXCEPT !.results = resultsDefaults] : d \in @}]
  /\ clients' = forEachSend(clients, event(r, "error"))
  /\ UNCHANGED <<disk, nextId, uploadRes, ui>>

\* The Gateway call fails with err: handlePythonError throws, the handler's
\* catch broadcasts the error and answers 502 with its message.
gatewayThrow(r, err) ==
  LET q == [gateway(req[r], "throw") EXCEPT
              !.cause = {err},
              !.err   = {handlePythonError(err, endpoint(req[r].kind))}] IN
  /\ req[r].pc = "gateway"
  /\ req' = [req EXCEPT ![r] = respond(broadcast(q, "error"), "502")]
  /\ clients' = forEachSend(clients, event(r, "error"))
  /\ UNCHANGED <<db, disk, nextId, uploadRes, ui>>

\* save() as it would be if it wrote the whole document back, creating the
\* record when it is gone (an upsert).
saveUpserts(r) ==
  LET q == req[r] IN
  /\ q.pc = "save"
  /\ db' = [db EXCEPT ![q.id] =
             {saved(q, IF db[q.id] = {} THEN the(q.audio) ELSE the(db[q.id]))}]
  /\ req' = [req EXCEPT ![r].pc = "saved"]
  /\ UNCHANGED <<disk, nextId, clients, uploadRes, ui>>

\* save() writes to the collection; it fails if the document is no longer
\* there.
save(r) ==
  LET q == req[r] IN
  /\ q.pc = "save"
  /\ IF db[q.id] = {}
     THEN /\ db' = db
          /\ req' = [req EXCEPT ![r].pc = "save failed"]
     ELSE /\ db' = [db EXCEPT ![q.id] = {saved(q, the(db[q.id]))}]
          /\ req' = [req EXCEPT ![r].pc = "saved"]
  /\ UNCHANGED <<disk, nextId, clients, uploadRes, ui>>

\* The handler after its save() as it would be without its broadcasts.
afterSaveSilent(r) ==
  LET q == req[r] IN
  /\ q.pc \in {"saved", "save failed"}
  /\ req' = [req EXCEPT ![r] =
       IF q.pc = "saved" THEN respond(q, "200") ELSE respond(q, "502")]
  /\ UNCHANGED <<db, disk, nextId, clients, uploadRes, ui>>

\* The handler after its save(): the terminal event and the response.
afterSave(r) ==
  LET q == req[r] IN
  /\ q.pc \in {"saved", "save failed"}
  /\ req' = [req EXCEPT ![r] =
       IF q.pc = "saved"
       THEN respond(broadcast(q, "complete"), "200")
       ELSE respond(broadcast(q, "error"), "502")]
  /\ clients' = forEachSend(clients,
                  event(r, IF q.pc = "saved" THEN "complete" ELSE "error"))
  /\ UNCHANGED <<db, disk, nextId, uploadRes, ui>>

\* getAudio, from the document findById returned to the response.
getAudio(r) ==
  LET q == req[r] IN
  /\ q.pc = "found"
  /\ q.kind = "get"
  /\ req' = [req EXCEPT ![r] =
       IF q.audio = {} THEN respond(q, "404 record") ELSE respond(q, "200")]
  /\ UNCHANGED <<db, disk, nextId, clients, uploadRes, ui>>

\* deleteAudio as it would be if a file that cannot be removed ended it.
deleteAudioStopsOnUnlinkError(r, stuck) ==
  LET q == req[r] IN
  /\ q.pc = "found"
  /\ q.kind = "delete"
  /\ IF q.audio = {}
     THEN /\ req' = [req EXCEPT ![r] = respond(q, "404 record")]
          /\ disk' = disk
     ELSE /\ disk' = disk
          /\ req' = [req EXCEPT ![r] =
               IF (the(q.audio).originalPath \cup the(q.audio).enhancedPath)
                     \subseteq (disk \ stuck)
               THEN [q EXCEPT !.pc = "findByIdAndDelete"]
               ELSE respond(q, "500")]
  /\ UNCHANGED <<db, nextId, clients, uploadRes, ui>>

\* deleteAudio, from the document findById returned to findByIdAndDelete;
\* unlinkSync throws on the files in stuck.
deleteAudio(r, stuck) ==
  LET q == req[r] IN
  /\ q.pc = "found"
  /\ q.kind = "delete"
  /\ IF q.audio = {}
     THEN /\ req' = [req EXCEPT ![r] = respond(q, "404 record")]
          /\ disk' = disk
          /\ stuck = {}
     ELSE /\ stuck \subseteq (the(q.audio).originalPath \cup the(q.audio).enhancedPath)
                               \cap disk
          /\ disk' = safeUnlink(safeUnlink(disk, the(q.audio).originalPath, stuck),
                                the(q.audio).enhancedPath, stuck)
          /\ req' = [req EXCEPT ![r].pc = "findByIdAndDelete"]
  /\ UNCHANGED <<db, nextId, clients, uploadRes, ui>>

\* findByIdAndDelete as it would be if it removed nothing.
findByIdAndDeleteKeeps(r) ==
  /\ req[r].pc = "findByIdAndDelete"
  /\ req' = [req EXCEPT ![r].pc = "deleted"]
  /\ UNCHANGED <<db, disk, nextId, clients, uploadRes, ui>>

\* Audio.findByIdAndDelete(id) removes the document.
findByIdAndDelete(r) ==
  /\ req[r].pc = "findByIdAndDelete"
  /\ db' = [db EXCEPT ![req[r].id] = {}]
  /\ req' = [req EXCEPT ![r].pc = "deleted"]
  /\ UNCHANGED <<disk, nextId, clients, uploadRes, ui>>

\* Audio.findByIdAndDelete(id) rejects (the database is unreachable): the
\* document stays, and deleteAudio, which has no catch, ends by the rejection.
\* Express 4 ignores the promise a handler returns: nothing is answered and
\* the process's unhandledRejection handler logs the reason.  Express 5
\* passes the rejection to errorHandler, which answers 500.
findByIdAndDeleteRejects(r, express5) ==
  /\ req[r].pc = "findByIdAndDelete"
  /\ req' = [req EXCEPT ![r] =
       IF express5 THEN respond(req[r], "500")
       ELSE [req[r] EXCEPT !.pc = "unhandledRejection", !.audio = {}]]
  /\ UNCHANGED <<db, disk, nextId, clients, uploadRes, ui>>

\* deleteAudio after findByIdAndDelete: the success response.
afterDelete(r) ==
  /\ req[r].pc = "deleted"
  /\ req' = [req EXCEPT ![r] = respond(req[r], "200")]
  /\ UNCHANGED <<db, disk, nextId, clients, uploadRes, ui>>

\* The connection handler as it would be if it replayed to a new connection
\* the events broadcast so far.
connectionReplays(c) ==
  /\ clients[c].readyState = "none"
  /\ \A c2 \in Clients : c2 < c => clients[c2].readyState # "none"
  /\ clients' = [clients EXCEPT ![c] =
       [readyState |-> "OPEN",
        inbox |-> <<welcome>> \o
                  [i \in 1..Cardinality({r \in Reqs : req[r].trace # <<>>})
                     |-> event(i, "processing")]]]
  /\ UNCHANGED <<db, disk, nextId, req, uploadRes, ui>>

\* wss.on('connection'): a connection is made, and is sent the welcome.
connection(c) ==
  /\ clients[c].readyState = "none"
  /\ \A c2 \in Clients : c2 < c => clients[c2].readyState # "none"
  /\ clients' = [clients EXCEPT ![c] = [readyState |-> "OPEN", inbox |-> <<welcome>>]]
  /\ UNCHANGED <<db, disk, nextId, req, uploadRes, ui>>

\* A close frame is sent or received on an open connection: it is CLOSING,
\* and still in wss.clients.
closing(c) ==
  /\ clients[c].readyState = "OPEN"
  /\ clients' = [clients EXCEPT ![c].readyState = "CLOSING"]
  /\ UNCHANGED <<db, disk, nextId, req, uploadRes, ui>>

\* The socket of a connection closes, after a close frame or by an error
\* (ws.on('close'), ws.on('error')): the connection is CLOSED.
close(c) ==
  /\ clients[c].readyState \in {"OPEN", "CLOSING"}
  /\ clients' = [clients EXCEPT ![c].readyState = "CLOSED"]
  /\ UNCHANGED <<db, disk, nextId, req, uploadRes, ui>>

\* The service with well-formed ids, files that can be removed, a database
\* that answers, a Python service that wrote the file it names, and nobody
\* connected to the WebSocket server.
Next ==
  \/ \E file \in UploadInputs : uploadAudio(file.ext, file.probed, FALSE, {})
  \/ \E r \in Reqs, id \in AssetIds :
       \/ \E kind \in Modules \ {"enhance"} : findById(r, kind, id, "")
       \/ \E model \in ModelInputs : findById(r, "enhance", id, model)
       \/ findById(r, "delete", id, "")
  \/ \E r \in Reqs :
       \/ beginModule(r)
       \/ \E k \in Modules : \E result \in Payloads(r, k) : gatewayReturn(r, result, TRUE)
       \/ gatewayThrow(r, axiosError("ECONNREFUSED", {}))
       \/ save(r)
       \/ afterSave(r)
       \/ deleteAudio(r, {})
       \/ findByIdAndDelete(r)
       \/ afterDelete(r)

Spec == Init /\ [][Next]_vars

\* The files a behaviour can hold.
AllFiles == {OrigFile(a) : a \in AssetIds} \cup {EnhFile(r) : r \in Reqs}

\* Number of uploads in the behaviours of SpecEnv and SpecObs: the ids above
\* it are well-formed ids of no asset.
EnvAssets == 1

\* The requests SpecEnv serves: two modules, fetch and delete.
EnvKinds == {"enhance", "aqi", "get", "delete"}

\* The Gateway's answers in SpecEnv.
EnvPayloads(r, kind) ==
  CASE kind = "enhance" ->
         {[enhancedFilePath |-> {EnhFile(r)}, enhanced_file_path |-> {},
           metrics |-> {"metrics"}]}
    [] kind = "aqi" -> {[aqiScore |-> {87}]}
    [] OTHER -> {}

\* The service in a failing environment: ids missing or malformed, files
\* that cannot be removed, a database that rejects the delete, a Python
\* service that fails in every way axios reports or names a file that is not
\* in the uploads directory.
NextEnv ==
  \/ /\ nextId <= EnvAssets
     /\ \E rejects \in BOOLEAN, stuck \in SUBSET {OrigFile(nextId)} :
          uploadAudio("wav", TRUE, rejects, stuck)
  \/ \E r \in Reqs, kind \in EnvKinds :
       \/ \E id \in AssetIds :
            findById(r, kind, id, IF kind = "enhance" THEN "CleanUNet" ELSE "")
       \/ \E present \in BOOLEAN : validateId(r, kind, present)
  \/ \E r \in Reqs :
       \/ beginModule(r)
       \/ \E result \in EnvPayloads(r, req[r].kind), written \in BOOLEAN :
            gatewayReturn(r, result, written)
       \/ \E err \in TransportErrors : gatewayThrow(r, err)
       \/ save(r)
       \/ afterSave(r)
       \/ getAudio(r)
       \/ \E stuck \in SUBSET AllFiles : deleteAudio(r, stuck)
       \/ findByIdAndDelete(r)
       \/ \E express5 \in BOOLEAN : findByIdAndDeleteRejects(r, express5)
       \/ afterDelete(r)

SpecEnv == Init /\ [][NextEnv]_vars

\* The Gateway's answers in SpecObs: a score the schema accepts, and one it
\* rejects.
ObsPayloads == {[aqiScore |-> {87}], [aqiScore |-> {105}]}

\* The service with observers: quality runs on the uploaded asset while
\* connections to the WebSocket server are made, start closing and close.
NextObs ==
  \/ nextId <= EnvAssets /\ uploadAudio("wav", TRUE, FALSE, {})
  \/ \E r \in Reqs, id \in 1..EnvAssets : findById(r, "aqi", id, "")
  \/ \E r \in Reqs :
       \/ beginModule(r)
       \/ \E result \in ObsPayloads : gatewayReturn(r, result, TRUE)
       \/ gatewayThrow(r, axiosError("ECONNABORTED", {}))
       \/ save(r)
       \/ afterSave(r)
  \/ \E c \in Clients :
       \/ connection(c)
       \/ closing(c)
       \/ close(c)

SpecObs == Init /\ [][NextObs]_vars

\* -------------------------------------------------------------- the browser

\* The aqiBand virtual of the Audio document.
aqiBand(doc) ==
  LET score == doc.processing.aqiScore IN
  IF score = {} THEN {}
  ELSE IF the(score) >= 71 THEN {"Good"}
  ELSE IF the(score) >= 41 THEN {"Fair"}
  ELSE {"Poor"}

\* The data of calculateAQI's 200 response: the Gateway's score, and the band
\* of the document saveAQI has put that score into.
aqiData(q) ==
  [ audioId  |-> q.id,
    aqiScore |-> the(q.arg).aqiScore,
    aqiBand  |-> aqiBand([processing |-> [aqiScore |-> the(q.arg).aqiScore]]) ]

\* AudioContext: handleNewFile, handleUploadSuccess and saveModuleResult.
handleNewFile(u) ==
  [u EXCEPT !.audioId = {},
            !.moduleResults = [enhancement |-> {}, explainability |-> {},
                               aqi |-> {}, forensics |-> {}]]

handleUploadSuccess(u, id) == [u EXCEPT !.audioId = {id}]

saveModuleResult(u, moduleName, data) ==
  [u EXCEPT !.moduleResults[moduleName] = {data}]

\* The value of `x ?? d`.
orElse(x, d) == IF x = {} THEN d ELSE the(x)

\* processUpload of the upload dialog, up to its await: handleNewFile, and
\* the upload request leaves.  The upload will get the next ObjectId.
processUpload ==
  /\ nextId <= MaxAssets
  /\ ui.upload = {}
  /\ ui' = [handleNewFile(ui) EXCEPT !.upload = {nextId}]
  /\ UNCHANGED <<db, disk, nextId, req, clients, uploadRes>>

\* processUpload after its await: handleUploadSuccess(data.id, data) on a
\* 201, an error message otherwise.
processUploadSettles ==
  /\ ui.upload # {}
  /\ uploadRes[the(ui.upload)] # {}
  /\ ui' = IF uploadRes[the(ui.upload)] = {"201"}
           THEN [handleUploadSuccess(ui, the(ui.upload)) EXCEPT !.upload = {}]
           ELSE [ui EXCEPT !.upload = {}]
  /\ UNCHANGED <<db, disk, nextId, req, clients, uploadRes>>

\* The success banner's reset: handleNewFile(null).
onReset ==
  /\ ui.audioId # {}
  /\ ui' = handleNewFile(ui)
  /\ UNCHANGED <<db, disk, nextId, req, clients, uploadRes>>

\* A module call the browser makes in slot r: the POST with the audioId of
\* the moment, not yet settled.  (cancelled records that the user pressed
\* Cancel while the call was outstanding; the program keeps no such mark.)
call(r, kind) ==
  {[kind |-> kind, audioId |-> the(ui.audioId), settled |-> FALSE,
    cancelled |-> FALSE]}

\* The slot a new call takes.
FreeSlot(r) ==
  /\ ui.calls[r] = {}
  /\ \A r2 \in Reqs : r2 < r => ui.calls[r2] # {}

\* The call of slot r is of module kind, the server has answered it and the
\* browser has not yet seen the answer.
Answered(r, kind) ==
  /\ ui.calls[r] # {}
  /\ the(ui.calls[r]).kind = kind
  /\ ~the(ui.calls[r]).settled
  /\ req[r].pc = "done"

\* The answer of request r is a 2xx (axios resolves; it rejects otherwise).
Resolves(r) == req[r].res[Len(req[r].res)].status = "200"

\* AQIModule's handleCalculate, up to its await (the button is disabled
\* without an audioId and while loading).
handleCalculate(r) ==
  /\ ui.audioId # {}
  /\ ui.aqi.status # "loading"
  /\ FreeSlot(r)
  /\ ui' = [ui EXCEPT !.aqi   = AQIModule("loading", @.score, @.isDemo),
                      !.calls[r] = call(r, "aqi")]
  /\ UNCHANGED <<db, disk, nextId, req, clients, uploadRes>>

\* handleCalculate after its await, and the restore effect that runs when
\* moduleResults.aqi has changed (it sets what the handler has set).
handleCalculateSettles(r) ==
  /\ Answered(r, "aqi")
  /\ LET u == [ui EXCEPT !.calls[r] = {[the(@) EXCEPT !.settled = TRUE]}] IN
     ui' = IF Resolves(r)
           THEN LET data == aqiData(req[r]) IN
                saveModuleResult(
                  [u EXCEPT !.aqi = AQIModule("success",
                                      orElse(data.aqiScore, DEMO_AQI_SCORE), FALSE)],
                  "aqi", data)
           ELSE [u EXCEPT !.aqi = AQIModule("error", @.score, @.isDemo)]
  /\ UNCHANGED <<db, disk, nextId, req, clients, uploadRes>>

\* The server receives the call the browser made in slot r.
received(r) ==
  /\ ui.calls[r] # {}
  /\ findById(r, the(ui.calls[r]).kind, the(ui.calls[r]).audioId,
              IF the(ui.calls[r]).kind = "enhance" THEN "CleanUNet" ELSE "")

\* Number of quality runs in the behaviours of SpecBand.
BandRuns == 1

\* The browser and the service, for the quality band: an upload, and quality
\* runs started in the AQI dialog.
NextBand ==
  \/ nextId <= EnvAssets /\ processUpload
  \/ /\ ui.upload = {nextId}
     /\ uploadAudio("wav", TRUE, FALSE, {})
  \/ processUploadSettles
  \/ \E r \in 1..BandRuns :
       \/ handleCalculate(r)
       \/ received(r)
       \/ beginModule(r)
       \/ \E result \in BandPayloads : gatewayReturn(r, result, TRUE)
       \/ save(r)
       \/ afterSave(r)
       \/ handleCalculateSettles(r)

SpecBand == Init /\ [][NextBand]_vars

\* The data of detectTampering's 200 response:
\* detections: result.detections || [], summary: result.summary || {}.
forensicsData(q) ==
  LET result == the(q.arg) IN
  [ audioId           |-> q.id,
    authenticityScore |-> result.authenticityScore,
    tamperingDetected |-> result.tamperingDetected,
    detections        |-> IF result.detections = {} THEN <<>> ELSE the(result.detections),
    summary           |-> IF result.summary = {} THEN {"{}"} ELSE result.summary ]

\* The data of enhanceAudio's 200 response.
enhanceData(q) ==
  LET result == the(q.arg) IN
  [ audioId     |-> q.id,
    enhancedUrl |-> enhancedPathOf(result),
    model       |-> q.model,
    metrics     |-> result.metrics ]

\* ForensicsModule's handleAnalyse, up to its await.
handleAnalyse(r) ==
  /\ ui.audioId # {}
  /\ ui.forensics.status # "loading"
  /\ FreeSlot(r)
  /\ ui' = [ui EXCEPT !.forensics.status = "loading",
                      !.calls[r] = call(r, "forensics")]
  /\ UNCHANGED <<db, disk, nextId, req, clients, uploadRes>>

\* handleAnalyse after its await, and the restore effect (which sets what
\* the handler has set).
handleAnalyseSettles(r) ==
  /\ Answered(r, "forensics")
  /\ LET u == [ui EXCEPT !.calls[r] = {[the(@) EXCEPT !.settled = TRUE]}] IN
     ui' = IF Resolves(r)
           THEN LET data == forensicsData(req[r]) IN
                saveModuleResult(
                  [u EXCEPT !.forensics = ForensicsModule("success",
                       orElse(data.authenticityScore, DEMO_SCORE),
                       IF Len(data.detections) > 0 THEN data.detections
                                                   ELSE DEMO_DETECTIONS,
                       orElse(data.summary, DEMO_SUMMARY),
                       FALSE)],
                  "forensics", data)
           ELSE [u EXCEPT !.forensics.status = "error"]
  /\ UNCHANGED <<db, disk, nextId, req, clients, uploadRes>>

\* EnhancementModule's handleEnhance, up to its await (the Enhance button of
\* the idle state, the Retry button of the error state): startProgressSim
\* sets progress to 5 and starts the interval.
handleEnhance(r) ==
  /\ ui.audioId # {}
  /\ ui.enhancement.status \in {"idle", "error"}
  /\ FreeSlot(r)
  /\ ui' = [ui EXCEPT !.enhancement = EnhancementModule("processing", 5,
                                         @.results, TRUE, 0, @.timeout),
                      !.calls[r] = call(r, "enhance")]
  /\ UNCHANGED <<db, disk, nextId, req, clients, uploadRes>>

\* The interval of startProgressSim fires: the next step, or none is left
\* and the interval clears itself.
progressTimer ==
  /\ ui.enhancement.timer
  /\ LET step == ui.enhancement.step + 1 IN
     ui' = IF step >= StepCount
           THEN [ui EXCEPT !.enhancement.timer = FALSE,
                           !.enhancement.step  = step]
           ELSE [ui EXCEPT !.enhancement.step  = step,
                           !.enhancement.progress = (step * 90) \div StepCount]
  /\ UNCHANGED <<db, disk, nextId, req, clients, uploadRes>>

\* The Cancel button of the processing state: stopProgressSim and
\* setStatus('idle').
Cancel ==
  /\ ui.enhancement.status = "processing"
  /\ ui' = [ui EXCEPT
       !.enhancement.timer  = FALSE,
       !.enhancement.status = "idle",
       !.calls = [r \in Reqs |->
                    IF @[r] # {} /\ the(@[r]).kind = "enhance" /\ ~the(@[r]).settled
                    THEN {[the(@[r]) EXCEPT !.cancelled = TRUE]}
                    ELSE @[r]]]
  /\ UNCHANGED <<db, disk, nextId, req, clients, uploadRes>>

\* handleEnhance after its await, and the effect that copies
\* moduleResults.enhancement into results.
handleEnhanceSettles(r) ==
  /\ Answered(r, "enhance")
  /\ LET u == [ui EXCEPT !.calls[r] = {[the(@) EXCEPT !.settled = TRUE]}] IN
     ui' = IF Resolves(r)
           THEN LET data == enhanceData(req[r]) IN
                saveModuleResult(
                  [u EXCEPT !.enhancement = EnhancementModule(@.status, 100,
                                              {data}, FALSE, @.step, TRUE)],
                  "enhancement", data)
           ELSE [u EXCEPT !.enhancement = EnhancementModule("error", 0,
                                            @.results, FALSE, @.step, @.timeout)]
  /\ UNCHANGED <<db, disk, nextId, req, clients, uploadRes>>

\* The timeout handleEnhance set after a success fires: setStatus('success').
setTimeout ==
  /\ ui.enhancement.timeout
  /\ ui' = [ui EXCEPT !.enhancement.timeout = FALSE,
                      !.enhancement.status  = "success"]
  /\ UNCHANGED <<db, disk, nextId, req, clients, uploadRes>>

\* The Gateway's answers in SpecUi.
UiPayloads(r, kind) ==
  CASE kind = "enhance" ->
         {[enhancedFilePath |-> {EnhFile(r)}, enhanced_file_path |-> {},
           metrics |-> {"metrics"}]}
    [] kind = "aqi" -> {[aqiScore |-> {87}]}
    [] kind = "forensics" -> UiForensicsPayloads
    [] OTHER -> {}

\* The browser and the service: uploads, the reset of the upload dialog, and
\* runs started in the enhancement, AQI and forensics dialogs.
NextUi ==
  \/ processUpload
  \/ /\ ui.upload = {nextId}
     /\ uploadAudio("wav", TRUE, FALSE, {})
  \/ processUploadSettles
  \/ onReset
  \/ progressTimer
  \/ Cancel
  \/ setTimeout
  \/ \E r \in Reqs :
       \/ handleCalculate(r)
       \/ handleAnalyse(r)
       \/ handleEnhance(r)
       \/ received(r)
       \/ beginModule(r)
       \/ \E result \in UiPayloads(r, req[r].kind) : gatewayReturn(r, result, TRUE)
       \/ gatewayThrow(r, axiosError("ECONNABORTED", {}))
       \/ save(r)
       \/ afterSave(r)
       \/ handleCalculateSettles(r)
       \/ handleAnalyseSettles(r)
       \/ handleEnhanceSettles(r)

SpecUi == Init /\ [][NextUi]_vars

\* ------------------------------------------------------------- vocabulary

Range(s) == {s[i] : i \in 1..Len(s)}

\* The number of events of a kind among those a request broadcast.
Count(s, kinds) == Cardinality({i \in 1..Len(s) : s[i] \in kinds})

Terminal == {"complete", "error"}

IsRun(r)      == req[r].kind \in Modules
\* The status codes of the responses a request was sent.
Statuses(q)   == [i \in 1..Len(q.res) |-> q.res[i].status]

Done(r)       == req[r].pc = "done"
Succeeded(r)  == Done(r) /\ Statuses(req[r]) = <<"200">>
Returned(r)   == "return" \in Range(req[r].trace)
Threw(r)      == "throw" \in Range(req[r].trace)
result(r)     == the(req[r].arg)

\* The fields of a document that belong to module k.
ModuleFields(k, d) ==
  CASE k = "enhance" ->
         <<d.enhancedPath, d.processing.enhanced, d.processing.enhancementModel,
           d.results.enhancement>>
    [] k = "explainability" -> <<d.results.explainability>>
    [] k = "aqi" -> <<d.processing.aqiScore, d.results.aqi>>
    [] k = "forensics" ->
         <<d.processing.authenticityScore, d.processing.tamperingDetected,
           d.results.forensics>>

\* The identity and static attributes of a document.
Static(d) ==
  <<d.filename, d.originalPath, d.format, d.duration, d.sampleRate, d.channels,
    d.fileSize, d.bitrate, d.uploadDate>>

\* ------------------------------------------------------------------ claims

\* C1: in every module run that passes validation, `processing` is broadcast
\* before the Gateway call begins, and exactly one terminal event (complete or
\* error, never both, never neither) is broadcast after the call resolves,
\* whatever the other requests do meanwhile.
C1_EventOrder ==
  \A r \in Reqs :
    LET s == req[r].trace IN
    /\ Count(s, {"processing"}) <= 1
    /\ Count(s, {"call"}) <= 1
    /\ Count(s, Terminal) <= 1
    /\ \A i \in 1..Len(s) :
         /\ s[i] = "call" => \E j \in 1..(i - 1) : s[j] = "processing"
         /\ s[i] \in {"return", "throw"} => \E j \in 1..(i - 1) : s[j] = "call"
         /\ s[i] \in Terminal => \E j \in 1..(i - 1) : s[j] \in {"return", "throw"}
    /\ (Done(r) /\ "call" \in Range(s)) =>
         /\ Count(s, {"processing"}) = 1
         /\ Count(s, Terminal) = 1
         /\ s[Len(s)] \in Terminal

\* C1 witness: a run has ended with its terminal event while a request that
\* arrived before it ended is still waiting for the Gateway.
C1_Witness ==
  \E r1, r2 \in Reqs :
    /\ r1 # r2
    /\ Done(r1) /\ req[r1].trace = <<"processing", "call", "return", "complete">>
    /\ req[r2].pc = "gateway" /\ r1 \notin req[r2].prior

\* C2 (as stated): whenever the Gateway call of a run returns successfully, the
\* run broadcasts exactly processing then complete and no error, and the caller
\* receives a success.
C2_SuccessCompletes ==
  \A r \in Reqs :
    (Done(r) /\ Returned(r)) =>
      /\ req[r].trace = <<"processing", "call", "return", "complete">>
      /\ Statuses(req[r]) = <<"200">>

\* C3: a run whose Gateway call fails broadcasts exactly processing then
\* error, answers with an error, and writes nothing: no step of a module run
\* other than its save() changes the collection, the failure step changes no
\* file either, and the run is over once its call has failed.
C3_FailureStep ==
  \A r \in Reqs :
    (req'[r].kind \in Modules /\ req'[r] # req[r]) =>
      /\ req[r].pc # "save" => db' = db
      /\ Threw(r)' =>
           /\ req'[r].trace = <<"processing", "call", "throw", "error">>
           /\ Statuses(req'[r]) = <<"502">>
           /\ req'[r].pc = "done"
           /\ disk' = disk

C3_NoWriteOnFailure == [][C3_FailureStep]_vars

\* C3 witness: a run on an asset that already holds a result has failed at the
\* Gateway.
C3_Witness ==
  \E r \in Reqs :
    /\ Done(r) /\ Threw(r)
    /\ db[req[r].id] # {}
    /\ the(db[req[r].id]).results # resultsDefaults

\* C4 (as stated): in every stored document a module's headline field is set
\* if and only if the module's Results entry is non-null.
C4_HeadlineIffResult ==
  \A a \in AssetIds : \A d \in db[a] :
    /\ d.processing.enhanced <=> d.results.enhancement # {}
    /\ d.processing.aqiScore # {} <=> d.results.aqi # {}
    /\ d.processing.authenticityScore # {} <=> d.results.forensics # {}
    /\ d.processing.tamperingDetected # {} <=> d.results.forensics # {}

\* The score clamped into [0, 100].
Clamp(v) == IF v > ScoreMax THEN ScoreMax ELSE IF v < ScoreMin THEN ScoreMin ELSE v

OutOfRange(s) == \E v \in s : v < ScoreMin \/ v > ScoreMax

\* C5 (as stated): when the Gateway returns a quality or authenticity score
\* outside [0, 100], the run persists the clamped score and completes with a
\* `complete` event and a success.
C5_ClampedAndComplete ==
  \A r \in Reqs :
    /\ (req[r].kind = "aqi" /\ Returned(r) /\ OutOfRange(result(r).aqiScore)) =>
         /\ Done(r) => req[r].trace[Len(req[r].trace)] = "complete" /\ Statuses(req[r]) = <<"200">>
         /\ req[r].pc = "saved" =>
              \A d \in db[req[r].id] :
                d.processing.aqiScore = {Clamp(v) : v \in result(r).aqiScore}
    /\ (req[r].kind = "forensics" /\ Returned(r)
          /\ OutOfRange(result(r).authenticityScore)) =>
         /\ Done(r) => req[r].trace[Len(req[r].trace)] = "complete" /\ Statuses(req[r]) = <<"200">>
         /\ req[r].pc = "saved" =>
              \A d \in db[req[r].id] :
                d.processing.authenticityScore =
                  {Clamp(v) : v \in result(r).authenticityScore}

\* C6: in every stored document aqiScore and authenticityScore are each null
\* or within [0, 100], whatever the Gateway returned.
C6_ScoresInRange ==
  \A a \in AssetIds : \A d \in db[a] :
    /\ \A v \in d.processing.aqiScore : v >= 0 /\ v <= 100
    /\ \A v \in d.processing.authenticityScore : v >= 0 /\ v <= 100

\* C6 witness: an asset holds a score although the Gateway answered one of
\* the runs on it with a score out of range.
C6_Witness ==
  \E a \in AssetIds : \E d \in db[a] : \E r \in Reqs :
    /\ d.processing.aqiScore # {}
    /\ req[r].id = a /\ req[r].kind = "aqi" /\ Returned(r)
    /\ OutOfRange(result(r).aqiScore)

\* Whether module k's fields of document d are those a run of k on asset a
\* that has saved wrote.
WrittenBy(a, k, d) ==
  \E r \in Reqs :
    /\ req[r].kind = k /\ req[r].id = a
    /\ req[r].pc = "saved" \/ Succeeded(r)
    /\ ModuleFields(k, d) = ModuleFields(k, assign(req[r], d))

\* C7: when runs of two different modules on the same asset have both saved,
\* the stored document holds the fields both wrote: no save overwrites,
\* reverts or erases what a run of the other module wrote.
C7_BothResultsKept ==
  \A r1, r2 \in Reqs :
    ( /\ IsRun(r1) /\ IsRun(r2)
      /\ req[r1].kind # req[r2].kind
      /\ req[r1].id = req[r2].id
      /\ req[r1].pc = "saved" \/ Succeeded(r1)
      /\ req[r2].pc = "saved" \/ Succeeded(r2) ) =>
    \A d \in db[req[r1].id] :
      /\ WrittenBy(req[r1].id, req[r1].kind, d)
      /\ WrittenBy(req[r2].id, req[r2].kind, d)

\* C7 witness: two runs of different modules on one asset, each arrived
\* before the other was answered, have both succeeded and the document is
\* still stored.
C7_Witness ==
  \E r1, r2 \in Reqs :
    /\ req[r1].kind = "aqi" /\ req[r2].kind = "enhance"
    /\ req[r1].id = req[r2].id
    /\ Succeeded(r1) /\ Succeeded(r2)
    /\ r1 \notin req[r2].prior /\ r2 \notin req[r1].prior
    /\ db[req[r1].id] # {}
    /\ result(r1).aqiScore # {}

\* C8: a re-run is permitted and overwrites the module's previous result: a
\* quality run on a stored asset whose file exists goes to the Gateway whatever
\* the document already holds, a returned score within [0, 100] goes to
\* save(), and the save() stores the score and the payload its own Gateway
\* call returned, whatever was stored before.
C8_SaveStep ==
  \A r \in Reqs :
    /\ (req[r].kind = "aqi" /\ req[r].pc = "found" /\ req[r].audio # {}
          /\ the(req[r].audio).originalPath \subseteq disk) =>
         req'[r].pc \in {"found", "gateway"}
    /\ (req[r].kind = "aqi" /\ req[r].pc = "gateway" /\ Returned(r)'
          /\ ~OutOfRange(result(r)'.aqiScore)) =>
         req'[r].pc = "save"
    /\ (req[r].kind = "aqi" /\ req[r].pc = "save" /\ req'[r].pc = "saved") =>
         \A d \in db'[req[r].id] :
           /\ d.processing.aqiScore = result(r).aqiScore
           /\ d.results.aqi = {result(r)}

C8_RerunOverwrites == [][C8_SaveStep]_vars

\* C8 witness: a quality run that arrived after an earlier quality run on the
\* asset had succeeded has saved a different score, and that score is stored.
C8_Witness ==
  \E r1, r2 \in Reqs :
    /\ req[r1].kind = "aqi" /\ req[r2].kind = "aqi" /\ req[r1].id = req[r2].id
    /\ Succeeded(r1) /\ r1 \in req[r2].prior
    /\ req[r2].pc = "saved"
    /\ result(r1).aqiScore # {} /\ result(r2).aqiScore # {}
    /\ result(r1).aqiScore # result(r2).aqiScore
    /\ \E d \in db[req[r2].id] : d.processing.aqiScore = result(r2).aqiScore

\* C9: a module-completion method changes only its own module's fields: the
\* save() of a run leaves every other module's fields and the identity and
\* static attributes of the document as they were.
C9_SaveStep ==
  \A r \in Reqs :
    (IsRun(r) /\ req[r].pc = "save" /\ req'[r].pc = "saved") =>
      \A d \in db[req[r].id] : \A e \in db'[req[r].id] :
        /\ Static(e) = Static(d)
        /\ \A k \in Modules \ {req[r].kind} : ModuleFields(k, e) = ModuleFields(k, d)

C9_Frame == [][C9_SaveStep]_vars

\* C9 witness: a run has saved into a document in which another module's
\* fields were set before and are still set.
C9_Witness ==
  \E r \in Reqs :
    /\ req[r].kind = "explainability" /\ req[r].pc = "saved"
    /\ \E d \in db[req[r].id] :
         /\ d.processing.enhanced /\ d.enhancedPath # {}
         /\ d.results.explainability # {}

\* C10: of two deletes of one asset in sequence, the first succeeds and the
\* second, which arrives after the first was answered, fails with not-found;
\* the step that answers not-found changes neither the collection nor the
\* files.
C10_Second ==
  \A r1, r2 \in Reqs :
    ( /\ req[r1].kind = "delete" /\ req[r2].kind = "delete"
      /\ req[r1].id = req[r2].id
      /\ Succeeded(r1) /\ r1 \in req[r2].prior ) =>
    /\ req[r1].res[1].id = {req[r1].id}
    /\ req[r2].pc \in {"found", "done"}
    /\ req[r2].audio = {}
    /\ Done(r2) => Statuses(req[r2]) = <<"404 record">>

C10_NotFoundStep ==
  \A r \in Reqs :
    (req[r].kind = "delete" /\ Statuses(req'[r]) = <<"404 record">> /\ Statuses(req[r]) = <<>>) =>
      db' = db /\ disk' = disk

C10_DeleteTwice == []C10_Second /\ [][C10_NotFoundStep]_vars

\* C10 witness: the first delete was answered 200, the second 404.
C10_Witness ==
  \E r1, r2 \in Reqs :
    /\ req[r1].kind = "delete" /\ req[r2].kind = "delete"
    /\ req[r1].id = req[r2].id
    /\ Succeeded(r1) /\ r1 \in req[r2].prior
    /\ Done(r2) /\ Statuses(req[r2]) = <<"404 record">>

\* Whether a request is over: it was answered, or its handler returned or was
\* ended by a rejection without answering.
Over(r) == req[r].pc \in {"done", "returned", "unhandledRejection"}

\* The files a document names.
FilesOf(d) == d.originalPath \cup d.enhancedPath

\* C11 (as stated): after a successful delete the asset's record no longer
\* exists, a fetch or a module run on that id that arrives afterwards fails
\* with not-found, and the source file and the file at the enhanced-file
\* location the removed record held are no longer in storage.
C11_Gone ==
  \A r \in Reqs :
    (req[r].kind = "delete" /\ Succeeded(r)) =>
      /\ db[req[r].id] = {}
      /\ \A r2 \in Reqs :
           (req[r2].kind \in Modules \cup {"get"} /\ req[r2].id = req[r].id
              /\ r \in req[r2].prior) =>
             /\ req[r2].audio = {}
             /\ Done(r2) => Statuses(req[r2]) = <<"404 record">>

C11_RemoveStep ==
  \A r \in Reqs :
    (req[r].kind = "delete" /\ req[r].pc = "findByIdAndDelete"
       /\ req'[r].pc = "deleted") =>
      /\ db'[req[r].id] = {}
      /\ \A d \in db[req[r].id] : FilesOf(d) \cap disk' = {}

C11_DeleteRemovesAll == []C11_Gone /\ [][C11_RemoveStep]_vars

\* C12: a file that cannot be removed, or is no longer there, does not stop a
\* delete: whatever becomes of the files, the handler goes on to
\* findByIdAndDelete, and once that has removed the record the delete answers
\* 200 with the id.  (A rejection of findByIdAndDelete itself is C13's case.)
C12_Step ==
  \A r \in Reqs :
    req[r].kind = "delete" =>
      /\ (req[r].pc = "found" /\ req[r].audio # {} /\ req'[r] # req[r]) =>
           /\ req'[r].pc = "findByIdAndDelete"
           /\ req'[r].res = <<>>
      /\ (req[r].pc = "findByIdAndDelete" /\ req'[r].pc = "deleted") =>
           db'[req[r].id] = {}
      /\ (req[r].pc = "deleted" /\ req'[r] # req[r]) =>
           /\ req'[r].res = <<[status |-> "200", id |-> {req[r].id}]>>
           /\ db'[req[r].id] = {}

C12_FileFailureTolerated == [][C12_Step]_vars

\* C12 witness: a delete was answered 200 and the record is gone, while the
\* asset's source file, which could not be removed, is still in storage.
C12_Witness ==
  \E r \in Reqs :
    /\ req[r].kind = "delete" /\ Succeeded(r)
    /\ db[req[r].id] = {}
    /\ OrigFile(req[r].id) \in disk

\* C13 (as stated): when findByIdAndDelete fails after the files were
\* removed, the caller of the delete is sent an error response (neither a
\* success nor nothing), and the deletion is not tried again: the request is
\* over and the record is as it was.
C13_RejectStep ==
  \A r \in Reqs :
    (req[r].kind = "delete" /\ req[r].pc = "findByIdAndDelete"
       /\ req'[r].pc \notin {"findByIdAndDelete", "deleted"}) =>
      /\ req'[r].pc = "done"
      /\ Len(req'[r].res) = 1
      /\ req'[r].res[1].status \notin {"200"}
      /\ db' = db

C13_RecordFailureSurfaced == [][C13_RejectStep]_vars

\* C14 (as stated): the enhanced-file location of a stored document becomes a
\* non-null value only by the save() of an enhancement run whose Gateway call
\* returned, and the file it then names is in storage.
C14_SetStep ==
  \A a \in AssetIds : \A d \in db[a] : \A e \in db'[a] :
    (e.enhancedPath # d.enhancedPath /\ e.enhancedPath # {}) =>
      /\ \E r \in Reqs :
           /\ req[r].kind = "enhance" /\ req[r].id = a /\ Returned(r)
           /\ req[r].pc = "save" /\ req'[r].pc = "saved"
           /\ e.enhancedPath = enhancedPathOf(result(r))
      /\ e.enhancedPath \subseteq disk'

C14_EnhancedPathNamesFile == [][C14_SetStep]_vars

\* Whether the source file of the document request r loaded is missing.
SourceMissing(r) ==
  /\ req[r].audio # {}
  /\ \/ the(req[r].audio).originalPath = {}
     \/ ~(the(req[r].audio).originalPath \subseteq disk)

\* C15: a module run on a stored asset whose source file is not in storage is
\* answered with the source-missing error by the first step of its handler
\* after the document is loaded: the run has broadcast nothing, sent nothing
\* to any connection, not called the Gateway, and the step changes neither
\* the collection nor the files.
C15_Answered ==
  \A r \in Reqs :
    (IsRun(r) /\ "404 file" \in Range(Statuses(req[r]))) =>
      /\ Statuses(req[r]) = <<"404 file">>
      /\ req[r].trace = <<>>
      /\ req[r].arg = {}

C15_Step ==
  \A r \in Reqs :
    (IsRun(r) /\ req[r].pc = "found" /\ SourceMissing(r) /\ req'[r] # req[r]) =>
      /\ req'[r].pc = "done"
      /\ Statuses(req'[r]) = <<"404 file">>
      /\ req'[r].trace = <<>>
      /\ db' = db /\ disk' = disk /\ clients' = clients

C15_SourceMissing == []C15_Answered /\ [][C15_Step]_vars

\* C15 witness: an enhancement run was answered source-missing for an asset
\* whose record is still stored.
C15_Witness ==
  \E r \in Reqs :
    /\ req[r].kind = "enhance" /\ Done(r)
    /\ Statuses(req[r]) = <<"404 file">>
    /\ db[req[r].id] # {}

\* Whether the id of a request that has arrived is missing or malformed.
BadId(r) == req[r].kind # "none" /\ req[r].id \notin AssetIds

\* C16 (as stated): a fetch, delete or module run whose id is missing or
\* malformed is answered with the invalid-id error, and one whose id is well
\* formed but names no stored asset is answered not-found; such a request
\* broadcasts nothing, does not call the Gateway, and none of its steps
\* changes the collection or the files.
C16_Answered ==
  \A r \in Reqs :
    /\ (BadId(r) /\ Over(r)) =>
         /\ Statuses(req[r]) = <<"400">>
         /\ req[r].trace = <<>>
    /\ (~BadId(r) /\ Over(r) /\ "404 record" \in Range(Statuses(req[r]))) =>
         /\ Statuses(req[r]) = <<"404 record">>
         /\ req[r].trace = <<>>

C16_Step ==
  \A r \in Reqs :
    /\ (BadId(r)' /\ req'[r] # req[r]) =>
         db' = db /\ disk' = disk /\ clients' = clients
    /\ (req[r].pc = "found" /\ req[r].audio = {} /\ req'[r] # req[r]) =>
         /\ Statuses(req'[r]) = <<"404 record">>
         /\ db' = db /\ disk' = disk /\ clients' = clients

C16_InvalidIdOrNotFound == []C16_Answered /\ [][C16_Step]_vars

\* Whether a step is one of a connection: its readyState changes.
ConnStep == \E c \in Clients : clients'[c].readyState # clients[c].readyState

\* Whether a step is one in which request r broadcasts the event s.
Emits(r, s) == Count(req'[r].trace, {s}) > Count(req[r].trace, {s})

\* Whether connection c was sent the event s of request r.
Got(c, r, s) == event(r, s) \in Range(clients[c].inbox)

\* C17: nothing a connection does cancels a run: a step of a connection
\* (connecting, starting to close, closing) changes no request and no
\* record; whatever the connections' states, a Gateway call that returns a
\* result the schema accepts is followed by save(), save() writes the
\* run's result into the stored record, and the run is answered 200.
C17_Step ==
  /\ ConnStep => req' = req /\ db' = db /\ disk' = disk
  /\ \A r \in Reqs :
       IsRun(r) =>
         /\ (req[r].pc = "gateway" /\ Returned(r)'
               /\ validates(preSave(assign(req'[r], the(req[r].audio))))) =>
              req'[r].pc = "save"
         /\ (req[r].pc = "save" /\ db[req[r].id] # {} /\ req'[r] # req[r]) =>
              /\ req'[r].pc = "saved"
              /\ db'[req[r].id] = {saved(req[r], the(db[req[r].id]))}
         /\ (req[r].pc = "saved" /\ req'[r] # req[r]) =>
              /\ Statuses(req'[r]) = <<"200">>
              /\ db' = db

C17_AbandonedRunPersists == [][C17_Step]_vars

\* C17 witness: a connection was sent the `processing` event of a quality run
\* and every connection closed before the run ended (none was sent its
\* terminal event); the run was answered 200 and its score is stored.
C17_Witness ==
  \E r \in Reqs :
    /\ req[r].kind = "aqi" /\ Succeeded(r)
    /\ \E c \in Clients : Got(c, r, "processing")
    /\ \A c \in Clients :
         clients[c].readyState \in {"none", "CLOSED"} /\ ~Got(c, r, "complete")
    /\ \E d \in db[req[r].id] :
         d.processing.aqiScore = result(r).aqiScore /\ d.results.aqi = {result(r)}

\* The progress events.
EventKinds == {"processing", "complete", "error"}

\* C18: in a step in which a run broadcasts an event, every connection that
\* is OPEN is sent the event, once, after what it was sent before, and the
\* others are sent nothing, whatever the states of the other connections;
\* and the handler goes on as it does with nobody connected: after
\* `processing` the Gateway call, with `complete` the 200, with `error` the
\* 502, the collection unchanged by the step.
C18_Step ==
  \A r \in Reqs : \A s \in EventKinds :
    Emits(r, s) =>
      /\ \A c \in Clients :
           clients'[c] =
             IF clients[c].readyState = "OPEN"
             THEN [clients[c] EXCEPT !.inbox = Append(@, event(r, s))]
             ELSE clients[c]
      /\ s = "processing" =>
           req'[r].pc = "gateway" /\ req'[r].trace = <<"processing", "call">>
      /\ s = "complete" => req'[r].pc = "done" /\ Statuses(req'[r]) = <<"200">>
      /\ s = "error" => req'[r].pc = "done" /\ Statuses(req'[r]) = <<"502">>
      /\ db' = db

C18_EmitReachesOpen == [][C18_Step]_vars

\* C18 witness: of two connections that were both sent the `processing`
\* event of a run that succeeded, the first was closing when `complete` was
\* broadcast and was not sent it, and the second was sent it.
C18_Witness ==
  \E r \in Reqs : \E c1, c2 \in Clients :
    /\ c1 < c2
    /\ Succeeded(r)
    /\ Got(c1, r, "processing") /\ Got(c2, r, "processing")
    /\ clients[c1].readyState = "CLOSING" /\ ~Got(c1, r, "complete")
    /\ Got(c2, r, "complete")

\* The progress events in what a connection was sent.
Progress(inbox) == {i \in 1..Len(inbox) : inbox[i].type = "progress"}

\* C19: a connection is sent a progress event only in the step that
\* broadcasts it, and only if it is already OPEN in that step: a new
\* connection starts with the welcome message alone, so it is never sent an
\* event broadcast before it connected; and no connection is sent the same
\* event twice.
C19_Step ==
  \A c \in Clients :
    clients'[c].inbox # clients[c].inbox =>
      \/ /\ clients[c].readyState = "none"
         /\ clients'[c].inbox = <<welcome>>
      \/ /\ clients[c].readyState = "OPEN"
         /\ \E r \in Reqs : \E s \in EventKinds :
              /\ Emits(r, s)
              /\ clients'[c].inbox = Append(clients[c].inbox, event(r, s))

C19_AtMostOnce ==
  \A c \in Clients :
    \A i, j \in Progress(clients[c].inbox) :
      clients[c].inbox[i] = clients[c].inbox[j] => i = j

C19_NoReplay == []C19_AtMostOnce /\ [][C19_Step]_vars

\* C19 witness: a connection made after a run's `processing` event was
\* broadcast has been sent the run's `complete` event and not its
\* `processing` event, which an earlier connection was sent.
C19_Witness ==
  \E r \in Reqs : \E c1, c2 \in Clients :
    /\ Succeeded(r)
    /\ Got(c1, r, "processing")
    /\ clients[c2].inbox = <<welcome, event(r, "complete")>>

\* C20 (as stated): whatever axios rejects a Gateway call with, what reaches
\* the handler is a normalized error, never the transport's own: for a
\* refused connection a message that names the endpoint, for a response that
\* is not 2xx the remote message or status, for a timeout a message that
\* names the operation's endpoint.
C20_Normalized ==
  \A r \in Reqs :
    Threw(r) =>
      \A c \in req[r].cause : \A e \in req[r].err :
        LET ep == endpoint(req[r].kind) IN
        /\ e.code = {} /\ e.response = {}
        /\ c.code = {"ECONNREFUSED"} =>
             e.message = <<"Python service is not reachable at", ep>>
        /\ (c.code # {"ECONNREFUSED"} /\ c.response # {}) =>
             \A data \in c.response :
               e.message \in {<<m>> : m \in data.message \cup data.error}
                             \cup {<<"Python service error", data.status, "on", ep>>}
        /\ (c.code = {"ECONNABORTED"} /\ c.response = {}) =>
             e.message = <<"Python service timed out on", ep>>

\* ---------------------------------------------------------------------- C21

\* The step in which the record of asset a is created.
Registered(a) == db[a] = {} /\ db'[a] # {}

C21_Step ==
  \A a \in AssetIds :
    Registered(a) =>
      \A d \in db'[a] :
        /\ d.processing.enhanced = FALSE
        /\ d.processing.enhancementModel = {}
        /\ d.processing.aqiScore = {}
        /\ d.processing.authenticityScore = {}
        /\ d.processing.tamperingDetected = {}
        /\ d.results.enhancement = {}
        /\ d.results.explainability = {}
        /\ d.results.aqi = {}
        /\ d.results.forensics = {}
        /\ d.enhancedPath = {}

\* C21: every registration that succeeds creates a record whose processing
\* flags are false or null (enhanced false; enhancementModel, aqiScore,
\* authenticityScore and tamperingDetected null), whose four results are null
\* and whose enhancedPath is null.
C21_FreshAssetBlank == [][C21_Step]_vars

\* An asset was registered and nothing has run on it: its record is blank.
C21_Witness ==
  \E a \in AssetIds :
    /\ db[a] # {}
    /\ \A r \in Reqs : req[r].kind = "none"
    /\ \A d \in db[a] : d.processing = processingDefaults /\ d.results = resultsDefaults

\* ---------------------------------------------------------------------- C22

\* b is the band the specification gives score s.
BandOf(s, b) ==
  /\ b \in {{"Good"}, {"Fair"}, {"Poor"}}
  /\ b = {"Good"} <=> s >= 71
  /\ b = {"Fair"} <=> (41 <= s /\ s <= 70)
  /\ b = {"Poor"} <=> s < 41

\* C22: the band derived from a stored quality score s in 0..100 is Good iff
\* s >= 71, Fair iff 41 <= s <= 70 and Poor iff s < 41, and null when no
\* score is stored; the band the server answers with a score and the band
\* label the AQI dialog shows for that score are the same.
C22_Bands ==
  /\ \A a \in AssetIds : \A d \in db[a] :
       /\ d.processing.aqiScore = {} => aqiBand(d) = {}
       /\ \A s \in d.processing.aqiScore : BandOf(s, aqiBand(d))
  /\ \A data \in ui.moduleResults.aqi : \A s \in data.aqiScore :
       /\ BandOf(s, data.aqiBand)
       /\ ui.aqi.score = s
       /\ data.aqiBand = {ui.aqi.bandLabel}

\* A score of 70 is stored and the dialog shows the server's answer for it.
C22_Witness ==
  /\ \E a \in AssetIds : \E d \in db[a] : d.processing.aqiScore = {70}
  /\ \E data \in ui.moduleResults.aqi : data.aqiScore = {70} /\ data.aqiBand = {"Fair"}
  /\ ui.aqi.bandLabel = "Fair"
  /\ ~ui.aqi.isDemo

\* ---------------------------------------------------------------------- C23

\* The registration of asset a failed: the upload was answered with an error.
Failed(a) == uploadRes[a] = {"500"}

\* C23: when persisting the record fails during an upload, the source file
\* already written is removed from storage, no record of the asset exists and
\* the caller receives an error: a failed registration leaves neither a
\* record nor an orphaned file.
C23_RolledBack ==
  \A a \in AssetIds :
    /\ Failed(a) => db[a] = {} /\ OrigFile(a) \notin disk
    /\ uploadRes[a] # {} /\ db[a] = {} /\ (\A r \in Reqs : req[r].kind # "delete")
         => Failed(a)

\* The part of C23 that holds: a failed registration leaves no record and is
\* answered with an error, and a file stays only if its removal failed.
C23_NoRecord ==
  \A a \in AssetIds :
    /\ Failed(a) => db[a] = {}
    /\ uploadRes[a] # {} /\ db[a] = {} /\ (\A r \in Reqs : req[r].kind # "delete")
         => Failed(a)

\* ---------------------------------------------------------------------- C24

\* C24: every module run, fetch or delete request receives exactly one
\* response, whatever its input (a missing asset id included) and whatever
\* the outcome of the lookup, the Gateway call, the save and the broadcast:
\* no request is answered twice, and a request whose handler has ended has
\* been answered.
C24_OneResponse ==
  \A r \in Reqs :
    /\ Len(req[r].res) <= 1
    /\ Over(r) => Len(req[r].res) = 1

\* The part of C24 that holds: no request is answered twice, and a handler
\* that ends without an answer was given no id or ended by the rejection of
\* findByIdAndDelete.
C24_AtMostOnce ==
  \A r \in Reqs :
    /\ Len(req[r].res) <= 1
    /\ Over(r) /\ req[r].res = <<>> =>
         \/ req[r].kind \in Modules /\ BadId(r)
         \/ req[r].kind = "delete" /\ req[r].pc = "unhandledRejection"

\* ---------------------------------------------------------------------- C25

\* Whether a delete of asset a has been answered with success.
Deleted(a) ==
  \E r \in Reqs : req[r].kind = "delete" /\ req[r].id = a /\ Succeeded(r)

C25_Step == \A a \in AssetIds : Deleted(a) => db'[a] = {}

\* C25: once a delete of an asset has succeeded its record stays absent,
\* whatever module runs that loaded the asset before the delete do
\* afterwards: a run whose Gateway call resolves after the delete does not
\* create the record again.
C25_StaysDeleted ==
  /\ [](\A a \in AssetIds : Deleted(a) => db[a] = {})
  /\ [][C25_Step]_vars

\* A run loaded the asset, the delete succeeded, and the run's save came
\* after it: the save failed and the record is absent.
C25_Witness ==
  \E r \in Reqs :
    /\ IsRun(r) /\ Returned(r)
    /\ req[r].pc = "save failed"
    /\ Deleted(req[r].id)
    /\ db[req[r].id] = {}

\* ---------------------------------------------------------------------- C26

\* Whether no request on asset a is under way.
Quiet(a) == \A r \in Reqs : req[r].id = a => req[r].pc = "idle" \/ Over(r)

\* The enhanced files the Python service produced for asset a.
EnhancedOf(a) == {EnhFile(r) : r \in {r2 \in Reqs : req[r2].id = a}}

\* C26: after a delete of an asset has succeeded and every run on the asset
\* that was under way has finished, storage holds no enhanced file produced
\* for the asset: neither the file of an earlier run whose recorded location
\* a re-run has overwritten, nor the file of a run that was under way during
\* the delete.
C26_NoEnhancedLeft ==
  \A a \in AssetIds : Deleted(a) /\ Quiet(a) => EnhancedOf(a) \cap disk = {}

\* ---------------------------------------------------------------------- C27

\* The delete requests of asset a that were answered with success.
Deletes(a) ==
  {r \in Reqs : req[r].kind = "delete" /\ req[r].id = a /\ Succeeded(r)}

\* C27: of two delete requests of the same asset that overlap in time, at
\* most one reports success, and the other is answered not-found.
C27_OneDeleteWins ==
  \A a \in AssetIds :
    /\ Cardinality(Deletes(a)) <= 1
    /\ \A r \in Reqs :
         (Deletes(a) # {} /\ req[r].kind = "delete" /\ req[r].id = a
            /\ Done(r) /\ r \notin Deletes(a))
         => Statuses(req[r]) = <<"404 record">>

\* ---------------------------------------------------------------------- C28

\* The module results AudioContext holds.
ModuleNames == {"enhancement", "explainability", "aqi", "forensics"}

\* C28: a module result AudioContext holds is the result of a run on the
\* asset that is loaded (the current audioId): the late response of a module
\* request made for the previous asset is never stored after handleNewFile.
C28_ResultsOfCurrentAsset ==
  \A m \in ModuleNames : \A data \in ui.moduleResults[m] :
    ui.audioId = {data.audioId}

\* ---------------------------------------------------------------------- C29

\* Whether slot r holds an enhancement call.
IsEnhance(r) == ui.calls[r] # {} /\ the(ui.calls[r]).kind = "enhance"

\* The user pressed Cancel during enhancement call r and has started no
\* enhancement since.
Cancelled(r) ==
  /\ IsEnhance(r)
  /\ the(ui.calls[r]).cancelled
  /\ \A r2 \in Reqs : r2 > r => ~IsEnhance(r2)

\* The step in which the browser receives the answer to call r.
Settles(r) ==
  /\ ui.calls[r] # {} /\ ~the(ui.calls[r]).settled
  /\ the(ui'.calls[r]).settled

C29_Step ==
  \A r \in Reqs :
    Cancelled(r) /\ Settles(r) =>
      /\ ui'.enhancement.status = ui.enhancement.status
      /\ ui'.enhancement.progress = ui.enhancement.progress
      /\ ui'.enhancement.results = ui.enhancement.results
      /\ ui'.moduleResults.enhancement = ui.moduleResults.enhancement

\* C29: after Cancel during an enhancement under way the enhancement dialog
\* stays idle until the user starts another run: the late response of the
\* cancelled request changes neither the dialog's status, nor its progress,
\* nor the stored enhancement result.
C29_CancelHolds ==
  /\ [](\A r \in Reqs : Cancelled(r) => ui.enhancement.status = "idle")
  /\ [][C29_Step]_vars

\* ---------------------------------------------------------------------- C30

\* What the forensics dialog shows is what the answer data carries.
ShowsAnswer(f, data) ==
  /\ data.authenticityScore = {f.score}
  /\ f.detections = data.detections
  /\ data.summary = {f.summary}

C30_Step ==
  \A r \in Reqs :
    (Answered(r, "forensics") /\ Resolves(r) /\ Settles(r)) =>
      /\ ~ui'.forensics.isDemo
      /\ ShowsAnswer(ui'.forensics, forensicsData(req[r]))

\* C30: whenever the forensics dialog has loaded a real result (isDemo is
\* false), the authenticity score, the detections and the summary it shows
\* are exactly those the server returned; a result with zero detections is
\* shown with zero detections, never with the demo detections.
C30_ShowsServerResult ==
  /\ [](~ui.forensics.isDemo => ui.forensics.detections # DEMO_DETECTIONS)
  /\ [][C30_Step]_vars

\* The part of C30 that holds: an answer with at least one detection and a
\* score is shown as it is.
C30_NonEmptyStep ==
  \A r \in Reqs :
    (Answered(r, "forensics") /\ Resolves(r) /\ Settles(r)
       /\ forensicsData(req[r]).detections # <<>>
       /\ forensicsData(req[r]).authenticityScore # {}) =>
      /\ ~ui'.forensics.isDemo
      /\ ShowsAnswer(ui'.forensics, forensicsData(req[r]))

C30_ShowsNonEmptyResult == [][C30_NonEmptyStep]_vars

====
